---- MODULE Spec2Model ----
(***************************************************************************)
(* Key-value operation layer of the pyignite thin client                   *)
(* (pyignite/api/key_value.py): the 21 cache_* functions, each of which    *)
(* builds a Query (opcode + ordered request schema), binds the caller's    *)
(* arguments to the schema names, performs one exchange on the connection  *)
(* and projects the decoded response into APIResult.value.                 *)
(*                                                                         *)
(* Query.perform, cache_id and the server's cache engine are collaborators *)
(* that key_value.py only calls; they are modelled from the specification  *)
(* and from the docstrings of key_value.py.                                *)
(***************************************************************************)
EXTENDS Integers, Sequences, FiniteSets, TLC

VARIABLES
    ctx,     \* the calling context of the application: connection, cache argument, optional arguments
    store,   \* the entries of the server's cache: a function from the present keys to their values
    call,    \* the last cache_* call: arguments, request built, result returned or error raised
    scen,    \* progress of the put / get_and_replace / get_and_remove / contains_key scenario
    rep      \* the run of consecutive cache_put calls of one (key, value), and the cache_get after it

vars == <<ctx, store, call, scen, rep>>

-----------------------------------------------------------------------------
(* Bounds of the model *)

MaxKey == 2         \* keys are 1..MaxKey
MaxValue == 1       \* values are 0..MaxValue (0 is a falsy value)
MaxNameLen == 5     \* longest cache name
MaxRepeat == 3      \* repetitions of one cache_put that are counted; longer runs count as MaxRepeat

Keys == 1..MaxKey
Values == 0..MaxValue

-----------------------------------------------------------------------------
(* Python values *)

None == [t |-> "None"]
PyInt(n) == [t |-> "int", v |-> n]
PyBool(b) == [t |-> "bool", v |-> b]
PyStr(s) == [t |-> "str", v |-> s]
PyList(s) == [t |-> "list", v |-> s]
PyTuple(s) == [t |-> "tuple", v |-> s]
PyDict(f) == [t |-> "dict", v |-> f]
\* the ordered name -> value mapping Response.to_python makes of the decoded fields
Fields(f) == [t |-> "fields", v |-> f]
\* a data type class of pyignite.datatypes
DataType(name) == [t |-> "type", name |-> name]

\* Python truth value: None, 0, False and empty containers are falsy, classes are truthy
Truthy(x) ==
    CASE x.t = "None" -> FALSE
      [] x.t = "int" -> x.v # 0
      [] x.t = "bool" -> x.v
      [] x.t \in {"str", "list", "tuple"} -> Len(x.v) > 0
      [] x.t \in {"dict", "fields"} -> DOMAIN x.v # {}
      [] OTHER -> TRUE

\* Python's `a or b`
PyOr(a, b) == IF Truthy(a) THEN a ELSE b

AnyDataObject == DataType("AnyDataObject")
AnyDataArray == DataType("AnyDataArray")
Map == DataType("Map")
Bool == DataType("Bool")
Byte == DataType("Byte")
Int_ == DataType("Int")      \* pyignite.datatypes.Int (Int names the integers here)
Long == DataType("Long")
PeekModes == DataType("PeekModes")
IntObject == DataType("IntObject")
LongObject == DataType("LongObject")

-----------------------------------------------------------------------------
(* Cache identifier: pyignite.utils.cache_id *)

\* 32-bit wraparound of 31 * h + c, computed on two 16-bit halves of the
\* unsigned accumulator so that no intermediate value leaves the integers
\* the model checker can represent.
HashStep(h, c) ==
    LET lo == 31 * h.lo + c
        hi == 31 * h.hi + (lo \div 65536)
    IN  [hi |-> hi % 65536, lo |-> lo % 65536]

RECURSIVE HashAcc(_)
HashAcc(s) ==
    IF Len(s) = 0 THEN [hi |-> 0, lo |-> 0]
    ELSE HashStep(HashAcc(SubSeq(s, 1, Len(s) - 1)), s[Len(s)])

\* the accumulator read as a signed 32-bit integer
ToSigned32(h) ==
    IF h.hi >= 32768 THEN (h.hi - 65536) * 65536 + h.lo ELSE h.hi * 65536 + h.lo

hashcode(s) == ToSigned32(HashAcc(s))

cache_id(cache) == IF cache.t = "int" THEN cache.v ELSE hashcode(cache.v)

-----------------------------------------------------------------------------
(* The 21 operations of key_value.py *)

Ops == {
    "cache_put", "cache_get", "cache_get_all", "cache_put_all",
    "cache_contains_key", "cache_contains_keys", "cache_get_and_put",
    "cache_get_and_replace", "cache_get_and_remove", "cache_put_if_absent",
    "cache_get_and_put_if_absent", "cache_replace", "cache_replace_if_equals",
    "cache_clear", "cache_clear_key", "cache_clear_keys", "cache_remove_key",
    "cache_remove_if_equals", "cache_remove_keys", "cache_remove_all",
    "cache_get_size" }

\* Faulty variant: cache_get_and_remove is sent with the opcode of cache_get
OpCodeGetForGetAndRemove(op) ==
    CASE op = "cache_put" -> "OP_CACHE_PUT"
      [] op = "cache_get" -> "OP_CACHE_GET"
      [] op = "cache_get_all" -> "OP_CACHE_GET_ALL"
      [] op = "cache_put_all" -> "OP_CACHE_PUT_ALL"
      [] op = "cache_contains_key" -> "OP_CACHE_CONTAINS_KEY"
      [] op = "cache_contains_keys" -> "OP_CACHE_CONTAINS_KEYS"
      [] op = "cache_get_and_put" -> "OP_CACHE_GET_AND_PUT"
      [] op = "cache_get_and_replace" -> "OP_CACHE_GET_AND_REPLACE"
      [] op = "cache_get_and_remove" -> "OP_CACHE_GET"
      [] op = "cache_put_if_absent" -> "OP_CACHE_PUT_IF_ABSENT"
      [] op = "cache_get_and_put_if_absent" -> "OP_CACHE_GET_AND_PUT_IF_ABSENT"
      [] op = "cache_replace" -> "OP_CACHE_REPLACE"
      [] op = "cache_replace_if_equals" -> "OP_CACHE_REPLACE_IF_EQUALS"
      [] op = "cache_clear" -> "OP_CACHE_CLEAR"
      [] op = "cache_clear_key" -> "OP_CACHE_CLEAR_KEY"
      [] op = "cache_clear_keys" -> "OP_CACHE_CLEAR_KEYS"
      [] op = "cache_remove_key" -> "OP_CACHE_REMOVE_KEY"
      [] op = "cache_remove_if_equals" -> "OP_CACHE_REMOVE_IF_EQUALS"
      [] op = "cache_remove_keys" -> "OP_CACHE_REMOVE_KEYS"
      [] op = "cache_remove_all" -> "OP_CACHE_REMOVE_ALL"
      [] op = "cache_get_size" -> "OP_CACHE_GET_SIZE"

\* Faulty variant: cache_clear_key is sent with the opcode of cache_remove_key
OpCodeRemoveForClearKey(op) ==
    CASE op = "cache_put" -> "OP_CACHE_PUT"
      [] op = "cache_get" -> "OP_CACHE_GET"
      [] op = "cache_get_all" -> "OP_CACHE_GET_ALL"
      [] op = "cache_put_all" -> "OP_CACHE_PUT_ALL"
      [] op = "cache_contains_key" -> "OP_CACHE_CONTAINS_KEY"
      [] op = "cache_contains_keys" -> "OP_CACHE_CONTAINS_KEYS"
      [] op = "cache_get_and_put" -> "OP_CACHE_GET_AND_PUT"
      [] op = "cache_get_and_replace" -> "OP_CACHE_GET_AND_REPLACE"
      [] op = "cache_get_and_remove" -> "OP_CACHE_GET_AND_REMOVE"
      [] op = "cache_put_if_absent" -> "OP_CACHE_PUT_IF_ABSENT"
      [] op = "cache_get_and_put_if_absent" -> "OP_CACHE_GET_AND_PUT_IF_ABSENT"
      [] op = "cache_replace" -> "OP_CACHE_REPLACE"
      [] op = "cache_replace_if_equals" -> "OP_CACHE_REPLACE_IF_EQUALS"
      [] op = "cache_clear" -> "OP_CACHE_CLEAR"
      [] op = "cache_clear_key" -> "OP_CACHE_REMOVE_KEY"
      [] op = "cache_clear_keys" -> "OP_CACHE_CLEAR_KEYS"
      [] op = "cache_remove_key" -> "OP_CACHE_REMOVE_KEY"
      [] op = "cache_remove_if_equals" -> "OP_CACHE_REMOVE_IF_EQUALS"
      [] op = "cache_remove_keys" -> "OP_CACHE_REMOVE_KEYS"
      [] op = "cache_remove_all" -> "OP_CACHE_REMOVE_ALL"
      [] op = "cache_get_size" -> "OP_CACHE_GET_SIZE"

\* Faulty variant: cache_put is sent with the opcode of cache_put_if_absent
OpCodePutIfAbsentForPut(op) ==
    CASE op = "cache_put" -> "OP_CACHE_PUT_IF_ABSENT"
      [] op = "cache_get" -> "OP_CACHE_GET"
      [] op = "cache_get_all" -> "OP_CACHE_GET_ALL"
      [] op = "cache_put_all" -> "OP_CACHE_PUT_ALL"
      [] op = "cache_contains_key" -> "OP_CACHE_CONTAINS_KEY"
      [] op = "cache_contains_keys" -> "OP_CACHE_CONTAINS_KEYS"
      [] op = "cache_get_and_put" -> "OP_CACHE_GET_AND_PUT"
      [] op = "cache_get_and_replace" -> "OP_CACHE_GET_AND_REPLACE"
      [] op = "cache_get_and_remove" -> "OP_CACHE_GET_AND_REMOVE"
      [] op = "cache_put_if_absent" -> "OP_CACHE_PUT_IF_ABSENT"
      [] op = "cache_get_and_put_if_absent" -> "OP_CACHE_GET_AND_PUT_IF_ABSENT"
      [] op = "cache_replace" -> "OP_CACHE_REPLACE"
      [] op = "cache_replace_if_equals" -> "OP_CACHE_REPLACE_IF_EQUALS"
      [] op = "cache_clear" -> "OP_CACHE_CLEAR"
      [] op = "cache_clear_key" -> "OP_CACHE_CLEAR_KEY"
      [] op = "cache_clear_keys" -> "OP_CACHE_CLEAR_KEYS"
      [] op = "cache_remove_key" -> "OP_CACHE_REMOVE_KEY"
      [] op = "cache_remove_if_equals" -> "OP_CACHE_REMOVE_IF_EQUALS"
      [] op = "cache_remove_keys" -> "OP_CACHE_REMOVE_KEYS"
      [] op = "cache_remove_all" -> "OP_CACHE_REMOVE_ALL"
      [] op = "cache_get_size" -> "OP_CACHE_GET_SIZE"

\* the opcode constant each function passes to Query (pyignite.queries.op_codes)
OpCode(op) ==
    CASE op = "cache_put" -> "OP_CACHE_PUT"
      [] op = "cache_get" -> "OP_CACHE_GET"
      [] op = "cache_get_all" -> "OP_CACHE_GET_ALL"
      [] op = "cache_put_all" -> "OP_CACHE_PUT_ALL"
      [] op = "cache_contains_key" -> "OP_CACHE_CONTAINS_KEY"
      [] op = "cache_contains_keys" -> "OP_CACHE_CONTAINS_KEYS"
      [] op = "cache_get_and_put" -> "OP_CACHE_GET_AND_PUT"
      [] op = "cache_get_and_replace" -> "OP_CACHE_GET_AND_REPLACE"
      [] op = "cache_get_and_remove" -> "OP_CACHE_GET_AND_REMOVE"
      [] op = "cache_put_if_absent" -> "OP_CACHE_PUT_IF_ABSENT"
      [] op = "cache_get_and_put_if_absent" -> "OP_CACHE_GET_AND_PUT_IF_ABSENT"
      [] op = "cache_replace" -> "OP_CACHE_REPLACE"
      [] op = "cache_replace_if_equals" -> "OP_CACHE_REPLACE_IF_EQUALS"
      [] op = "cache_clear" -> "OP_CACHE_CLEAR"
      [] op = "cache_clear_key" -> "OP_CACHE_CLEAR_KEY"
      [] op = "cache_clear_keys" -> "OP_CACHE_CLEAR_KEYS"
      [] op = "cache_remove_key" -> "OP_CACHE_REMOVE_KEY"
      [] op = "cache_remove_if_equals" -> "OP_CACHE_REMOVE_IF_EQUALS"
      [] op = "cache_remove_keys" -> "OP_CACHE_REMOVE_KEYS"
      [] op = "cache_remove_all" -> "OP_CACHE_REMOVE_ALL"
      [] op = "cache_get_size" -> "OP_CACHE_GET_SIZE"

\* operations by the shape of their parameter list
KeyOps == {"cache_get", "cache_contains_key", "cache_get_and_remove",
           "cache_clear_key", "cache_remove_key"}
KeyValueOps == {"cache_put", "cache_get_and_put", "cache_get_and_replace",
                "cache_put_if_absent", "cache_get_and_put_if_absent", "cache_replace"}
KeysOps == {"cache_get_all", "cache_contains_keys", "cache_clear_keys", "cache_remove_keys"}
NoArgOps == {"cache_clear", "cache_remove_all"}

\* Faulty variant: the hint is ignored
HintIgnored(hint) == AnyDataObject

\* `key_hint or AnyDataObject`: the descriptor bound to a key, sample or value field
HintOr(hint) == PyOr(hint, AnyDataObject)

\* Faulty variant: cache_replace_if_equals declares value before sample
RequestSchemaValueFirst(op, a) ==
    LET head == << <<"hash_code", Int_>>, <<"flag", Byte>> >>
        key == <<"key", HintOr(a.key_hint)>>
    IN  CASE op \in KeyOps -> head \o <<key>>
          [] op \in KeyValueOps -> head \o <<key, <<"value", HintOr(a.value_hint)>> >>
          [] op \in KeysOps -> head \o << <<"keys", AnyDataArray>> >>
          [] op \in NoArgOps -> head
          [] op = "cache_put_all" -> head \o << <<"data", Map>> >>
          [] op = "cache_replace_if_equals" ->
                head \o <<key, <<"value", HintOr(a.value_hint)>>,
                          <<"sample", HintOr(a.sample_hint)>> >>
          [] op = "cache_remove_if_equals" ->
                head \o <<key, <<"sample", HintOr(a.sample_hint)>> >>
          [] op = "cache_get_size" -> head \o << <<"peek_modes", PeekModes>> >>

\* the ordered request schema each function gives to Query: <<name, type>> pairs
RequestSchema(op, a) ==
    LET head == << <<"hash_code", Int_>>, <<"flag", Byte>> >>
        key == <<"key", HintOr(a.key_hint)>>
    IN  CASE op \in KeyOps -> head \o <<key>>
          [] op \in KeyValueOps -> head \o <<key, <<"value", HintOr(a.value_hint)>> >>
          [] op \in KeysOps -> head \o << <<"keys", AnyDataArray>> >>
          [] op \in NoArgOps -> head
          [] op = "cache_put_all" -> head \o << <<"data", Map>> >>
          [] op = "cache_replace_if_equals" ->
                head \o <<key, <<"sample", HintOr(a.sample_hint)>>,
                          <<"value", HintOr(a.value_hint)>> >>
          [] op = "cache_remove_if_equals" ->
                head \o <<key, <<"sample", HintOr(a.sample_hint)>> >>
          [] op = "cache_get_size" -> head \o << <<"peek_modes", PeekModes>> >>

\* Faulty variant: the scalar 0 is wrapped like any other scalar
NormalizePeekModesWrapZero(peek_modes) ==
    IF peek_modes.t \notin {"list", "tuple"}
    THEN PyList(<<peek_modes.v>>)
    ELSE peek_modes

\* cache_get_size, lines 967-971: a scalar peek mode becomes a list
NormalizePeekModes(peek_modes) ==
    IF peek_modes.t \notin {"list", "tuple"}
    THEN IF peek_modes.v = 0 THEN PyList(<<>>) ELSE PyList(<<peek_modes.v>>)
    ELSE peek_modes

\* a mapping given by its pairs
MapOf(pairs) == [n \in {p[1] : p \in pairs} |-> (CHOOSE p \in pairs : p[1] = n)[2]]

\* Faulty variant: the flag is 0 whatever the binary argument
FlagAlwaysOff(binary) == 0

\* `1 if binary else 0`
Flag(binary) == IF Truthy(binary) THEN 1 ELSE 0

\* Faulty variant: the cache identifier is computed from the key, not from the cache
HeadParamsKeyId(a) ==
    { <<"hash_code", PyInt(IF "key" \in DOMAIN a THEN cache_id(PyInt(a.key))
                           ELSE cache_id(a.cache))>>,
      <<"flag", PyInt(Flag(a.binary))>> }

\* Faulty variant: an integer identifier is masked to 31 bits
HeadParamsMaskedId(a) ==
    { <<"hash_code", PyInt(IF a.cache.t = "int" /\ a.cache.v < 0
                           THEN (a.cache.v + 2147483647) + 1
                           ELSE cache_id(a.cache))>>,
      <<"flag", PyInt(Flag(a.binary))>> }

\* the two entries every query_params dict starts with
HeadParams(a) ==
    { <<"hash_code", PyInt(cache_id(a.cache))>>, <<"flag", PyInt(Flag(a.binary))>> }

\* Faulty variant: the bulk operations send only the first of the keys
OwnParamsFirstKey(op, a) ==
    CASE op \in KeyOps -> { <<"key", PyInt(a.key)>> }
      [] op \in KeyValueOps -> { <<"key", PyInt(a.key)>>, <<"value", PyInt(a.value)>> }
      [] op \in KeysOps -> { <<"keys", PyList(IF a.keys = <<>> THEN <<>> ELSE <<a.keys[1]>>)>> }
      [] op \in NoArgOps -> {}
      [] op = "cache_put_all" -> { <<"data", PyDict(a.pairs)>> }
      [] op = "cache_replace_if_equals" ->
            { <<"key", PyInt(a.key)>>, <<"sample", PyInt(a.sample)>>,
              <<"value", PyInt(a.value)>> }
      [] op = "cache_remove_if_equals" ->
            { <<"key", PyInt(a.key)>>, <<"sample", PyInt(a.sample)>> }
      [] op = "cache_get_size" -> { <<"peek_modes", NormalizePeekModes(a.peek_modes)>> }

\* Faulty variant: cache_replace_if_equals binds the sample to 'value' and the value to 'sample'
OwnParamsSwapped(op, a) ==
    CASE op \in KeyOps -> { <<"key", PyInt(a.key)>> }
      [] op \in KeyValueOps -> { <<"key", PyInt(a.key)>>, <<"value", PyInt(a.value)>> }
      [] op \in KeysOps -> { <<"keys", PyList(a.keys)>> }
      [] op \in NoArgOps -> {}
      [] op = "cache_put_all" -> { <<"data", PyDict(a.pairs)>> }
      [] op = "cache_replace_if_equals" ->
            { <<"key", PyInt(a.key)>>, <<"sample", PyInt(a.value)>>,
              <<"value", PyInt(a.sample)>> }
      [] op = "cache_remove_if_equals" ->
            { <<"key", PyInt(a.key)>>, <<"sample", PyInt(a.sample)>> }
      [] op = "cache_get_size" -> { <<"peek_modes", NormalizePeekModes(a.peek_modes)>> }

\* the entries of the query_params dict for the operation's own arguments
OwnParams(op, a) ==
    CASE op \in KeyOps -> { <<"key", PyInt(a.key)>> }
      [] op \in KeyValueOps -> { <<"key", PyInt(a.key)>>, <<"value", PyInt(a.value)>> }
      [] op \in KeysOps -> { <<"keys", PyList(a.keys)>> }
      [] op \in NoArgOps -> {}
      [] op = "cache_put_all" -> { <<"data", PyDict(a.pairs)>> }
      [] op = "cache_replace_if_equals" ->
            { <<"key", PyInt(a.key)>>, <<"sample", PyInt(a.sample)>>,
              <<"value", PyInt(a.value)>> }
      [] op = "cache_remove_if_equals" ->
            { <<"key", PyInt(a.key)>>, <<"sample", PyInt(a.sample)>> }
      [] op = "cache_get_size" -> { <<"peek_modes", NormalizePeekModes(a.peek_modes)>> }

\* Faulty variant: cache_put_all binds its pairs to 'pairs', a name its schema does not have
QueryParamsPairsName(op, a) ==
    MapOf(HeadParams(a) \cup (IF op = "cache_put_all" THEN { <<"pairs", PyDict(a.pairs)>> }
                              ELSE OwnParams(op, a)))

\* the query_params dict each function gives to perform
QueryParams(op, a) == MapOf(HeadParams(a) \cup OwnParams(op, a))

\* Faulty variant: cache_put asks for a 'success' field, as cache_put_if_absent does
ResponseConfigPutSuccess(op) ==
    CASE op \in {"cache_get", "cache_get_and_put", "cache_get_and_replace",
                 "cache_get_and_remove", "cache_get_and_put_if_absent"} ->
                << <<"value", AnyDataObject>> >>
      [] op \in {"cache_contains_key", "cache_contains_keys"} -> << <<"value", Bool>> >>
      [] op \in {"cache_put", "cache_put_if_absent", "cache_replace", "cache_replace_if_equals",
                 "cache_remove_key", "cache_remove_if_equals"} -> << <<"success", Bool>> >>
      [] op = "cache_get_all" -> << <<"data", Map>> >>
      [] op = "cache_get_size" -> << <<"count", Long>> >>
      [] OTHER -> <<>>

\* the response_config each function gives to perform (empty when it gives none)
ResponseConfig(op) ==
    CASE op \in {"cache_get", "cache_get_and_put", "cache_get_and_replace",
                 "cache_get_and_remove", "cache_get_and_put_if_absent"} ->
                << <<"value", AnyDataObject>> >>
      [] op \in {"cache_contains_key", "cache_contains_keys"} -> << <<"value", Bool>> >>
      [] op \in {"cache_put_if_absent", "cache_replace", "cache_replace_if_equals",
                 "cache_remove_key", "cache_remove_if_equals"} -> << <<"success", Bool>> >>
      [] op = "cache_get_all" -> << <<"data", Map>> >>
      [] op = "cache_get_size" -> << <<"count", Long>> >>
      [] OTHER -> <<>>

\* Faulty variant: cache_get_all returns the decoded fields without unwrapping 'data'
ProjectedFieldWrapped(op) ==
    CASE op \in {"cache_get", "cache_contains_key", "cache_contains_keys",
                 "cache_get_and_put", "cache_get_and_replace", "cache_get_and_remove",
                 "cache_get_and_put_if_absent"} -> "value"
      [] op \in {"cache_put_if_absent", "cache_replace", "cache_replace_if_equals",
                 "cache_remove_key", "cache_remove_if_equals"} -> "success"
      [] op = "cache_get_size" -> "count"
      [] OTHER -> ""

\* the response field each function copies into result.value ("" when it copies none)
ProjectedField(op) ==
    CASE op \in {"cache_get", "cache_contains_key", "cache_contains_keys",
                 "cache_get_and_put", "cache_get_and_replace", "cache_get_and_remove",
                 "cache_get_and_put_if_absent"} -> "value"
      [] op \in {"cache_put_if_absent", "cache_replace", "cache_replace_if_equals",
                 "cache_remove_key", "cache_remove_if_equals"} -> "success"
      [] op = "cache_get_all" -> "data"
      [] op = "cache_get_size" -> "count"
      [] OTHER -> ""

\* Faulty variant: the value is replaced whatever the status
ProjectAlways(op, result) == TRUE

\* whether the function replaces result.value: only when the status is 0
ProjectWhen(op, result) == result.status = 0

\* Faulty variant: `if result.value[name]:` in place of `if result.status == 0:`
ProjectIfTruthy(op, result) ==
    LET name == ProjectedField(op)
    IN  IF name = "" \/ result.status # 0 \/ ~Truthy(result.value.v[name])
        THEN [raised |-> "none", result |-> result]
        ELSE [raised |-> "none", result |-> [result EXCEPT !.value = result.value.v[name]]]

\* the tail of each function: `if result.status == 0: result.value = result.value[name]`.
\* Subscripting a value that is not a mapping, or by a missing name, raises.
Project(op, result) ==
    LET name == ProjectedField(op)
    IN  IF name = "" \/ ~ProjectWhen(op, result)
        THEN [raised |-> "none", result |-> result]
        ELSE IF result.value.t # "fields" THEN [raised |-> "TypeError", result |-> result]
        ELSE IF name \notin DOMAIN result.value.v THEN [raised |-> "KeyError", result |-> result]
        ELSE [raised |-> "none", result |-> [result EXCEPT !.value = result.value.v[name]]]

-----------------------------------------------------------------------------
(* The server's cache engine, as the docstrings of key_value.py describe it *)

ServerCacheName == <<99>>        \* the one cache that exists on the server, "c"
CacheDoesNotExist == 1000        \* the status of a request that names no existing cache
PRIMARY == 2                     \* a peek mode

Without(st, ks) == [k \in DOMAIN st \ ks |-> st[k]]
With(st, k, v) == [x \in DOMAIN st \cup {k} |-> IF x = k THEN v ELSE st[x]]
Merge(st, d) == [x \in DOMAIN st \cup DOMAIN d |-> IF x \in DOMAIN d THEN d[x] ELSE st[x]]
Range(s) == {s[i] : i \in DOMAIN s}
Stored(st, k) == IF k \in DOMAIN st THEN PyInt(st[k]) ELSE None

Reply(payload, st) == [status |-> 0, message |-> "", payload |-> payload, store |-> st]

\* The server reads the request fields by position, in the order of its protocol.
Server(op_code, f, st) ==
    LET key == f[3].v.v
        arg4 == f[4].v.v
        arg5 == f[5].v.v
        keys == Range(f[3].v.v)
        has == key \in DOMAIN st
    IN  IF f[1].v.v # hashcode(ServerCacheName)
        THEN [status |-> CacheDoesNotExist, message |-> "Cache does not exist",
              payload |-> <<>>, store |-> st]
        ELSE CASE op_code = "OP_CACHE_PUT" -> Reply(<<>>, With(st, key, arg4))
          [] op_code = "OP_CACHE_GET" -> Reply(<<Stored(st, key)>>, st)
          [] op_code = "OP_CACHE_GET_ALL" ->
                Reply(<<PyDict([k \in keys \cap DOMAIN st |-> st[k]])>>, st)
          [] op_code = "OP_CACHE_PUT_ALL" -> Reply(<<>>, Merge(st, f[3].v.v))
          [] op_code = "OP_CACHE_CONTAINS_KEY" -> Reply(<<PyBool(has)>>, st)
          [] op_code = "OP_CACHE_CONTAINS_KEYS" -> Reply(<<PyBool(keys \subseteq DOMAIN st)>>, st)
          [] op_code = "OP_CACHE_GET_AND_PUT" -> Reply(<<Stored(st, key)>>, With(st, key, arg4))
          [] op_code = "OP_CACHE_GET_AND_REPLACE" ->
                Reply(<<Stored(st, key)>>, IF has THEN With(st, key, arg4) ELSE st)
          [] op_code = "OP_CACHE_GET_AND_REMOVE" -> Reply(<<Stored(st, key)>>, Without(st, {key}))
          [] op_code = "OP_CACHE_PUT_IF_ABSENT" ->
                Reply(<<PyBool(~has)>>, IF has THEN st ELSE With(st, key, arg4))
          [] op_code = "OP_CACHE_GET_AND_PUT_IF_ABSENT" ->
                Reply(<<Stored(st, key)>>, IF has THEN st ELSE With(st, key, arg4))
          [] op_code = "OP_CACHE_REPLACE" ->
                Reply(<<PyBool(has)>>, IF has THEN With(st, key, arg4) ELSE st)
          [] op_code = "OP_CACHE_REPLACE_IF_EQUALS" ->
                LET eq == has /\ st[key] = arg4
                IN  Reply(<<PyBool(eq)>>, IF eq THEN With(st, key, arg5) ELSE st)
          [] op_code = "OP_CACHE_CLEAR" -> Reply(<<>>, <<>>)
          [] op_code = "OP_CACHE_CLEAR_KEY" -> Reply(<<>>, Without(st, {key}))
          [] op_code = "OP_CACHE_CLEAR_KEYS" -> Reply(<<>>, Without(st, keys))
          [] op_code = "OP_CACHE_REMOVE_KEY" -> Reply(<<PyBool(has)>>, Without(st, {key}))
          [] op_code = "OP_CACHE_REMOVE_IF_EQUALS" ->
                LET eq == has /\ st[key] = arg4
                IN  Reply(<<PyBool(eq)>>, IF eq THEN Without(st, {key}) ELSE st)
          [] op_code = "OP_CACHE_REMOVE_KEYS" -> Reply(<<>>, Without(st, keys))
          [] op_code = "OP_CACHE_REMOVE_ALL" -> Reply(<<>>, <<>>)
          [] op_code = "OP_CACHE_GET_SIZE" ->
                LET modes == Range(f[3].v.v)
                IN  Reply(<<PyInt(IF modes = {} \/ PRIMARY \in modes
                                  THEN Cardinality(DOMAIN st) ELSE 0)>>, st)

-----------------------------------------------------------------------------
(* Query and Query.perform (pyignite.queries) *)

Query(op_code, following, query_id) ==
    [op_code |-> op_code, following |-> following, query_id |-> query_id]

GeneratedQueryId == 4242         \* the identifier drawn when the caller gives none

\* the request fields in schema order, each value with the type that encodes it
Encode(following, query_params) ==
    [i \in DOMAIN following |->
        [type |-> following[i][2], v |-> query_params[following[i][1]]]]

\* the decoded response fields, by the names of the response schema
Decode(response_config, payload) ==
    IF Len(response_config) = 0 THEN None
    ELSE Fields([n \in {response_config[i][1] : i \in DOMAIN response_config} |->
            payload[CHOOSE i \in DOMAIN response_config : response_config[i][1] = n]])

NoResult == [status |-> 0, message |-> "", value |-> None, query_id |-> None]

\* One request/response exchange.  Gives what the call raised (if anything),
\* the request that was built, the result, the number of exchanges on the
\* connection and the entries of the server's cache afterwards.
perform(query, conn, query_params, response_config, st) ==
    LET qid == IF query.query_id = None THEN PyInt(GeneratedQueryId) ELSE query.query_id
        names == {query.following[i][1] : i \in DOMAIN query.following}
        request == [op_code |-> query.op_code, query_id |-> qid,
                    following |-> query.following, params |-> query_params]
        out(raised, result, n, st2) ==
            [raised |-> raised, request |-> request, result |-> result,
             exchanges |-> n, store |-> st2]
    IN  IF ~(names \subseteq DOMAIN query_params) THEN out("KeyError", NoResult, 0, st)
        ELSE IF conn = "broken" THEN out("ConnectionError", NoResult, 1, st)
        ELSE LET reply == CHOOSE r \in {Server(query.op_code,
                                                Encode(query.following, query_params), st)} : TRUE
             IN  IF reply.status # 0
                 THEN out("none", [status |-> reply.status, message |-> reply.message,
                                   value |-> None, query_id |-> qid], 1, reply.store)
                 ELSE IF Len(reply.payload) < Len(response_config)
                 THEN out("ParseError", NoResult, 1, reply.store)
                 ELSE out("none", [status |-> 0, message |-> "",
                                   value |-> Decode(response_config, reply.payload),
                                   query_id |-> qid], 1, reply.store)

-----------------------------------------------------------------------------
(* Progress of the scenario put(k, a); get_and_replace(k, b);                *)
(* get_and_remove(k); contains_key(k), made of consecutive calls             *)

NoScenario == [stage |-> 0, k |-> 0, a |-> 0, b |-> 0]

ScenarioStep(sc, op, a) ==
    CASE op = "cache_put" -> [stage |-> 1, k |-> a.key, a |-> a.value, b |-> 0]
      [] op = "cache_get_and_replace" /\ sc.stage = 1 /\ a.key = sc.k ->
            [sc EXCEPT !.stage = 2, !.b = a.value]
      [] op = "cache_get_and_remove" /\ sc.stage = 2 /\ a.key = sc.k -> [sc EXCEPT !.stage = 3]
      [] op = "cache_contains_key" /\ sc.stage = 3 /\ a.key = sc.k -> [sc EXCEPT !.stage = 4]
      [] OTHER -> NoScenario

-----------------------------------------------------------------------------
(* A run of n >= 1 consecutive cache_put(k, v) calls, then cache_get(k)      *)

NoRepeat == [n |-> 0, k |-> 0, v |-> 0, first |-> <<>>, got |-> FALSE]

\* rp.first is the content of the cache after the first put of the run
RepeatStep(rp, op, a, after) ==
    CASE op = "cache_put" ->
            IF rp.n >= 1 /\ ~rp.got /\ rp.k = a.key /\ rp.v = a.value
            THEN [rp EXCEPT !.n = IF rp.n < MaxRepeat THEN rp.n + 1 ELSE MaxRepeat]
            ELSE [n |-> 1, k |-> a.key, v |-> a.value, first |-> after, got |-> FALSE]
      [] op = "cache_get" /\ rp.n >= 1 /\ ~rp.got /\ a.key = rp.k -> [rp EXCEPT !.got = TRUE]
      [] OTHER -> NoRepeat

-----------------------------------------------------------------------------
(* A call of one of the functions *)

\* Faulty variant: a call that failed on the connection is sent a second time
DoRetry(op, a) ==
    \E y \in {perform(Query(OpCode(op), RequestSchema(op, a), a.query_id), ctx.conn,
                       QueryParams(op, a), ResponseConfig(op), store)} :
    \E x \in {IF y.raised = "ConnectionError"
               THEN [perform(Query(OpCode(op), RequestSchema(op, a), a.query_id), ctx.conn,
                             QueryParams(op, a), ResponseConfig(op), y.store)
                        EXCEPT !.exchanges = @ + y.exchanges]
               ELSE y} :
    \E p \in {IF x.raised = "none" THEN Project(op, x.result)
               ELSE [raised |-> x.raised, result |-> x.result]} :
        /\ call' = [op |-> op, args |-> a, request |-> x.request,
                    response_config |-> ResponseConfig(op),
                    exchanges |-> x.exchanges,
                    performed |-> x.raised = "none",
                    response |-> x.result,
                    raised |-> p.raised,
                    result |-> p.result]
        /\ store' = x.store
        /\ scen' = ScenarioStep(scen, op, a)
        /\ rep' = RepeatStep(rep, op, a, x.store)
        /\ UNCHANGED ctx

\* Faulty variant: the query_id argument is not passed on to Query
DoWithoutQueryId(op, a) ==
    \E x \in {perform(Query(OpCode(op), RequestSchema(op, a), None), ctx.conn,
                       QueryParams(op, a), ResponseConfig(op), store)} :
    \E p \in {IF x.raised = "none" THEN Project(op, x.result)
               ELSE [raised |-> x.raised, result |-> x.result]} :
        /\ call' = [op |-> op, args |-> a, request |-> x.request,
                    response_config |-> ResponseConfig(op),
                    exchanges |-> x.exchanges,
                    performed |-> x.raised = "none",
                    response |-> x.result,
                    raised |-> p.raised,
                    result |-> p.result]
        /\ store' = x.store
        /\ scen' = ScenarioStep(scen, op, a)
        /\ rep' = RepeatStep(rep, op, a, x.store)
        /\ UNCHANGED ctx

\* Query(...), query_struct.perform(...) and the projection of the result.
\* call.performed tells whether perform returned a result, call.response is
\* that result, call.result the result the function returns (when it raises
\* nothing).
Do(op, a) ==
    \E x \in {perform(Query(OpCode(op), RequestSchema(op, a), a.query_id), ctx.conn,
                       QueryParams(op, a), ResponseConfig(op), store)} :
    \E p \in {IF x.raised = "none" THEN Project(op, x.result)
               ELSE [raised |-> x.raised, result |-> x.result]} :
        /\ call' = [op |-> op, args |-> a, request |-> x.request,
                    response_config |-> ResponseConfig(op),
                    exchanges |-> x.exchanges,
                    performed |-> x.raised = "none",
                    response |-> x.result,
                    raised |-> p.raised,
                    result |-> p.result]
        /\ store' = x.store
        /\ scen' = ScenarioStep(scen, op, a)
        /\ rep' = RepeatStep(rep, op, a, x.store)
        /\ UNCHANGED ctx

\* the arguments every function takes
Common == [cache |-> ctx.cache, binary |-> ctx.binary, query_id |-> ctx.query_id]

ArgsKey(key) == [cache |-> ctx.cache, key |-> key, key_hint |-> ctx.key_hint,
                 binary |-> ctx.binary, query_id |-> ctx.query_id]
ArgsKeyValue(key, value) ==
    [cache |-> ctx.cache, key |-> key, value |-> value, key_hint |-> ctx.key_hint,
     value_hint |-> ctx.value_hint, binary |-> ctx.binary, query_id |-> ctx.query_id]
ArgsKeys(keys) == [cache |-> ctx.cache, keys |-> keys,
                   binary |-> ctx.binary, query_id |-> ctx.query_id]

\* the keys of a set as a list, in ascending order
RECURSIVE ListOf(_)
ListOf(S) == IF S = {} THEN <<>>
             ELSE LET m == CHOOSE x \in S : \A y \in S : y <= x
                  IN  Append(ListOf(S \ {m}), m)

KeyLists == {ListOf(S) : S \in SUBSET Keys}
PairDicts == UNION {[D -> Values] : D \in SUBSET Keys}
PeekModeArgs == {PyInt(0), PyInt(PRIMARY), PyList(<<>>), PyList(<<PRIMARY>>), PyTuple(<<>>)}

cache_put == \E key \in Keys, value \in Values : Do("cache_put", ArgsKeyValue(key, value))
cache_get == \E key \in Keys : Do("cache_get", ArgsKey(key))
cache_get_all == \E keys \in KeyLists : Do("cache_get_all", ArgsKeys(keys))
cache_put_all ==
    \E pairs \in PairDicts :
        Do("cache_put_all", [cache |-> ctx.cache, pairs |-> pairs,
                             binary |-> ctx.binary, query_id |-> ctx.query_id])
cache_contains_key == \E key \in Keys : Do("cache_contains_key", ArgsKey(key))
cache_contains_keys == \E keys \in KeyLists : Do("cache_contains_keys", ArgsKeys(keys))
cache_get_and_put ==
    \E key \in Keys, value \in Values : Do("cache_get_and_put", ArgsKeyValue(key, value))
cache_get_and_replace ==
    \E key \in Keys, value \in Values : Do("cache_get_and_replace", ArgsKeyValue(key, value))
cache_get_and_remove == \E key \in Keys : Do("cache_get_and_remove", ArgsKey(key))
cache_put_if_absent ==
    \E key \in Keys, value \in Values : Do("cache_put_if_absent", ArgsKeyValue(key, value))
cache_get_and_put_if_absent ==
    \E key \in Keys, value \in Values :
        Do("cache_get_and_put_if_absent", ArgsKeyValue(key, value))
cache_replace ==
    \E key \in Keys, value \in Values : Do("cache_replace", ArgsKeyValue(key, value))
cache_replace_if_equals ==
    \E key \in Keys, sample \in Values, value \in Values :
        Do("cache_replace_if_equals",
           [cache |-> ctx.cache, key |-> key, sample |-> sample, value |-> value,
            key_hint |-> ctx.key_hint, sample_hint |-> ctx.sample_hint,
            value_hint |-> ctx.value_hint, binary |-> ctx.binary,
            query_id |-> ctx.query_id])
cache_clear == Do("cache_clear", Common)
cache_clear_key == \E key \in Keys : Do("cache_clear_key", ArgsKey(key))
cache_clear_keys == \E keys \in KeyLists : Do("cache_clear_keys", ArgsKeys(keys))
cache_remove_key == \E key \in Keys : Do("cache_remove_key", ArgsKey(key))
cache_remove_if_equals ==
    \E key \in Keys, sample \in Values :
        Do("cache_remove_if_equals",
           [cache |-> ctx.cache, key |-> key, sample |-> sample,
            key_hint |-> ctx.key_hint, sample_hint |-> ctx.sample_hint,
            binary |-> ctx.binary, query_id |-> ctx.query_id])
cache_remove_keys == \E keys \in KeyLists : Do("cache_remove_keys", ArgsKeys(keys))
cache_remove_all == Do("cache_remove_all", Common)
cache_get_size ==
    \E peek_modes \in PeekModeArgs :
        Do("cache_get_size", [cache |-> ctx.cache, peek_modes |-> peek_modes,
                              binary |-> ctx.binary, query_id |-> ctx.query_id])

-----------------------------------------------------------------------------
(* Specifications *)

NoCall == [op |-> "none"]

Context(conn, cache, key_hint, sample_hint, value_hint, binary, query_id) ==
    [conn |-> conn, cache |-> cache, key_hint |-> key_hint, sample_hint |-> sample_hint,
     value_hint |-> value_hint, binary |-> binary, query_id |-> query_id]

Start == store = <<>> /\ call = NoCall /\ scen = NoScenario /\ rep = NoRepeat

KnownCache(cache) == cache_id(cache) = hashcode(ServerCacheName)

\* Calls without optional arguments: the cache the server has over a working
\* and over a broken connection, and a cache the server does not have.
Init ==
    /\ \E c \in { <<"ok", ServerCacheName>>, <<"broken", ServerCacheName>>, <<"ok", <<100>> >> } :
            ctx = Context(c[1], PyStr(c[2]), None, None, None, PyBool(FALSE), None)
    /\ Start

\* Calls with type hints: each of key_hint, sample_hint and value_hint given
\* or not, every two of them in all four combinations.
HintChoices == { <<None, None, None>>, <<None, IntObject, LongObject>>,
                 <<IntObject, None, LongObject>>, <<LongObject, IntObject, None>> }

InitHints ==
    /\ \E h \in HintChoices :
            ctx = Context("ok", PyStr(ServerCacheName), h[1], h[2], h[3], PyBool(FALSE), None)
    /\ Start

\* Calls naming the cache by a string or by an integer identifier.
CodeUnits == {97, 65535}
\* the names made of a run of one code unit followed by a run of another
CacheNames ==
    UNION {{[k \in 1..n |-> IF k <= i THEN x ELSE y] : x \in CodeUnits, y \in CodeUnits, i \in 0..n} :
           n \in 0..MaxNameLen}
CacheIds == {-2147483647 - 1, -1, 0, hashcode(ServerCacheName), 2147483647}

InitCaches ==
    /\ \E cache \in {PyStr(n) : n \in CacheNames} \cup {PyInt(n) : n \in CacheIds} :
            ctx = Context("ok", cache, None, None, None, PyBool(FALSE), None)
    /\ Start

\* Calls with the optional binary and query_id arguments given or left to
\* their defaults (binary=False, query_id=None), to the cache the server has
\* and to one it does not have.
DefaultBinary == PyBool(FALSE)
Options == { <<ServerCacheName, PyBool(TRUE), None>>,
             <<ServerCacheName, DefaultBinary, PyInt(7)>>,
             <<ServerCacheName, PyBool(TRUE), PyInt(0)>>,
             << <<100>>, DefaultBinary, PyInt(7)>> }

InitOptions ==
    /\ \E o \in Options : ctx = Context("ok", PyStr(o[1]), None, None, None, o[2], o[3])
    /\ Start

Next ==
    \/ cache_put
    \/ cache_get
    \/ cache_get_all
    \/ cache_put_all
    \/ cache_contains_key
    \/ cache_contains_keys
    \/ cache_get_and_put
    \/ cache_get_and_replace
    \/ cache_get_and_remove
    \/ cache_put_if_absent
    \/ cache_get_and_put_if_absent
    \/ cache_replace
    \/ cache_replace_if_equals
    \/ cache_clear
    \/ cache_clear_key
    \/ cache_clear_keys
    \/ cache_remove_key
    \/ cache_remove_if_equals
    \/ cache_remove_keys
    \/ cache_remove_all
    \/ cache_get_size

Spec == Init /\ [][Next]_vars
SpecHints == InitHints /\ [][Next]_vars
SpecCaches == InitCaches /\ [][Next]_vars
SpecOptions == InitOptions /\ [][Next]_vars

-----------------------------------------------------------------------------
(* Properties *)

Called == call.op \in Ops
Responded == Called /\ call.performed
Returned == Called /\ call.raised = "none"
Succeeded == Returned /\ call.result.status = 0

\* C1: whenever the exchange of any of the 21 operations gives a result with a
\* nonzero status, the operation raises nothing and returns that very result:
\* its value is not populated and its error message is present.
C1_ErrorResultPassedThrough ==
    (Responded /\ call.response.status # 0) =>
        /\ call.raised = "none"
        /\ call.result = call.response
        /\ call.result.value = None
        /\ call.result.message # ""

C1_Witness ==
    /\ call.op = "cache_replace_if_equals"
    /\ call.response.status # 0
    /\ call.raised = "none"

\* the response field documented for each single-field operation
ScalarField(op) ==
    CASE op \in {"cache_get", "cache_contains_key", "cache_contains_keys",
                 "cache_get_and_put", "cache_get_and_replace", "cache_get_and_remove",
                 "cache_get_and_put_if_absent"} -> "value"
      [] op \in {"cache_put_if_absent", "cache_replace", "cache_replace_if_equals",
                 "cache_remove_key", "cache_remove_if_equals"} -> "success"
      [] op = "cache_get_size" -> "count"
      [] OTHER -> ""

\* C2: for every operation with a single scalar response field, whenever the
\* status is 0 the returned value is the decoded content of that field,
\* whatever it is (null, false, zero included).
C2_ScalarFieldUnwrapped ==
    (Responded /\ ScalarField(call.op) # "" /\ call.response.status = 0) =>
        /\ call.raised = "none"
        /\ call.result.status = 0
        /\ call.result.value = call.response.value.v[ScalarField(call.op)]

\* a get of a stored falsy value, returned as it is
C2_Witness ==
    /\ call.op = "cache_get"
    /\ Succeeded
    /\ call.response.value = Fields([n \in {"value"} |-> PyInt(0)])
    /\ call.result.value = PyInt(0)

NoPayloadOps == {"cache_clear", "cache_remove_all", "cache_put", "cache_put_all"}

\* C3: clear, remove-all, put and put-all have an empty response schema; a
\* call the server carries out returns status 0 and leaves the value unset.
C3_NoPayloadNoValue ==
    (Called /\ call.op \in NoPayloadOps) =>
        /\ call.response_config = <<>>
        /\ (ctx.conn = "ok" /\ KnownCache(ctx.cache)) => Succeeded
        /\ Succeeded => call.result.value = None

C3_Witness ==
    /\ call.op = "cache_put_all"
    /\ Succeeded
    /\ call.args.pairs # <<>>
    /\ store # <<>>

\* C4: a successful cache_get_all returns the key -> value mapping itself,
\* holding exactly the requested keys that are in the cache, each with its
\* stored value.
C4_GetAllMapping ==
    (Responded /\ call.op = "cache_get_all" /\ call.response.status = 0) =>
        /\ call.raised = "none"
        /\ call.result.value.t = "dict"
        /\ DOMAIN call.result.value.v = Range(call.args.keys) \cap DOMAIN store
        /\ \A k \in DOMAIN call.result.value.v : call.result.value.v[k] = store[k]

\* two keys requested, one of them in the cache
C4_Witness ==
    /\ call.op = "cache_get_all"
    /\ Succeeded
    /\ Len(call.args.keys) = 2
    /\ Cardinality(Range(call.args.keys) \cap DOMAIN store) = 1

\* C5: a successful cache_contains_keys returns true only if every listed
\* key is in the cache, and false if one of them is not.
C5_ContainsKeysAll ==
    (Responded /\ call.op = "cache_contains_keys" /\ call.response.status = 0) =>
        /\ call.raised = "none"
        /\ call.result.value.t = "bool"
        /\ call.result.value.v <=> (\A i \in DOMAIN call.args.keys : call.args.keys[i] \in DOMAIN store)

\* two keys listed, the first in the cache and the other not
C5_Witness ==
    /\ call.op = "cache_contains_keys"
    /\ Succeeded
    /\ Len(call.args.keys) = 2
    /\ call.args.keys[1] \in DOMAIN store
    /\ call.args.keys[2] \notin DOMAIN store
    /\ call.result.value = PyBool(FALSE)

FieldNames(following) == [i \in DOMAIN following |-> following[i][1]]

\* C6: every request schema begins with ('hash_code', Int), ('flag', Byte);
\* the operation's own fields follow, in the order key, sample, value for
\* replace_if_equals and key, sample for remove_if_equals.
C6_SchemaHeadAndOrder ==
    Called =>
        LET following == call.request.following
            names == FieldNames(following)
        IN  /\ Len(following) >= 2
            /\ following[1] = <<"hash_code", Int_>>
            /\ following[2] = <<"flag", Byte>>
            /\ \A i \in 3..Len(names) : names[i] \notin {"hash_code", "flag"}
            /\ call.op = "cache_replace_if_equals" =>
                    names = <<"hash_code", "flag", "key", "sample", "value">>
            /\ call.op = "cache_remove_if_equals" =>
                    names = <<"hash_code", "flag", "key", "sample">>

\* a replace_if_equals whose sample matched and whose value was stored
C6_Witness ==
    /\ call.op = "cache_replace_if_equals"
    /\ Succeeded
    /\ call.result.value = PyBool(TRUE)
    /\ call.args.sample # call.args.value
    /\ store[call.args.key] = call.args.value

\* C10: over a working connection to an existing cache, the consecutive calls
\* put(k, a); get_and_replace(k, b); get_and_remove(k); contains_key(k) all
\* have status 0; get_and_replace returns a and leaves b under k,
\* get_and_remove returns b and leaves k absent, contains_key returns false.
C10_Scenario ==
    (ctx.conn = "ok" /\ KnownCache(ctx.cache) /\ scen.stage > 0) =>
        /\ Succeeded
        /\ scen.stage = 1 =>
                /\ call.op = "cache_put"
                /\ scen.k \in DOMAIN store /\ store[scen.k] = scen.a
        /\ scen.stage = 2 =>
                /\ call.op = "cache_get_and_replace"
                /\ call.result.value = PyInt(scen.a)
                /\ scen.k \in DOMAIN store /\ store[scen.k] = scen.b
        /\ scen.stage = 3 =>
                /\ call.op = "cache_get_and_remove"
                /\ call.result.value = PyInt(scen.b)
                /\ scen.k \notin DOMAIN store
        /\ scen.stage = 4 =>
                /\ call.op = "cache_contains_key"
                /\ call.result.value = PyBool(FALSE)
                /\ scen.k \notin DOMAIN store

\* the whole scenario has run, with b different from a
C10_Witness ==
    /\ scen.stage = 4
    /\ scen.a # scen.b
    /\ Succeeded

\* the type the request schema binds to a field
TypeOf(following, name) ==
    following[CHOOSE i \in DOMAIN following : following[i][1] = name][2]

Resolved(hint) == IF hint = None THEN AnyDataObject ELSE hint

\* C7: the type bound to each key, sample and value field is the caller's
\* hint when one is given and AnyDataObject when none is, whatever the
\* argument's value.
C7_HintOrAny ==
    Called =>
        /\ "key" \in DOMAIN call.args =>
              TypeOf(call.request.following, "key") = Resolved(call.args.key_hint)
        /\ "sample" \in DOMAIN call.args =>
              TypeOf(call.request.following, "sample") = Resolved(call.args.sample_hint)
        /\ "value" \in DOMAIN call.args =>
              TypeOf(call.request.following, "value") = Resolved(call.args.value_hint)

\* a replace_if_equals with the key and the sample hinted and the value not
C7_Witness ==
    /\ call.op = "cache_replace_if_equals"
    /\ Succeeded
    /\ call.args.key_hint = LongObject
    /\ call.args.sample_hint = IntObject
    /\ call.args.value_hint = None
    /\ TypeOf(call.request.following, "value") = AnyDataObject

\* Reference string hash: h = 31 * h + c on four bytes, low byte first,
\* the carry out of the high byte dropped.
RECURSIVE RefBytes(_)
RefBytes(s) ==
    IF Len(s) = 0 THEN <<0, 0, 0, 0>>
    ELSE LET h == RefBytes(SubSeq(s, 1, Len(s) - 1))
             t1 == 31 * h[1] + s[Len(s)]
             t2 == 31 * h[2] + (t1 \div 256)
             t3 == 31 * h[3] + (t2 \div 256)
             t4 == 31 * h[4] + (t3 \div 256)
         IN  <<t1 % 256, t2 % 256, t3 % 256, t4 % 256>>

RefHash(s) ==
    LET h == RefBytes(s)
        top == IF h[4] >= 128 THEN h[4] - 256 ELSE h[4]
    IN  (top * 256 + h[3]) * 65536 + h[2] * 256 + h[1]

\* hashes of java.lang.String.hashCode
ReferenceHashes ==
    { << <<>>, 0 >>, << <<97>>, 97 >>, << <<97, 97>>, 3104 >>,
      << <<97, 97, 97, 97, 97>>, 92567585 >>,
      << <<65535, 65535, 65535, 65535>>, 2017429440 >>,
      << <<65535, 65535, 65535, 65535, 65535>>, -1884131265 >>,
      << <<97, 97, 97, 97, 97, 97>>, -1425372064 >> }

\* C8: for a cache given by name, the identifier in the request is the
\* 31-multiplier polynomial hash of the name, wrapped to a signed 32-bit
\* integer; it depends on the name alone.
C8_NameHash ==
    (Called /\ call.args.cache.t = "str") =>
        LET id == call.request.params["hash_code"]
        IN  /\ id.t = "int"
            /\ id.v >= -2147483647 - 1 /\ id.v <= 2147483647
            /\ id.v = RefHash(call.args.cache.v)
            /\ \A r \in ReferenceHashes : call.args.cache.v = r[1] => id.v = r[2]

\* a name whose hash wrapped around
C8_Witness ==
    /\ Called
    /\ call.args.cache = PyStr(<<65535, 65535, 65535, 65535, 65535>>)
    /\ call.request.params["hash_code"] = PyInt(-1884131265)
    /\ call.exchanges = 1

\* C9: for a cache given as an integer, the identifier in the request is
\* that integer.
C9_IntegerIdUnchanged ==
    (Called /\ call.args.cache.t = "int") =>
        call.request.params["hash_code"] = PyInt(call.args.cache.v)

\* the smallest 32-bit integer, sent as it is
C9_Witness ==
    /\ Called
    /\ call.args.cache = PyInt(-2147483647 - 1)
    /\ call.request.params["hash_code"].v < -2147483647
    /\ call.exchanges = 1

\* C11: over a working connection to an existing cache, n >= 1 consecutive
\* cache_put calls of one (k, v) all have status 0 and leave the cache as the
\* first of them left it, with v under k; the cache_get of k that follows has
\* status 0 and returns v.
C11_RepeatedPutThenGet ==
    (ctx.conn = "ok" /\ KnownCache(ctx.cache) /\ rep.n >= 1) =>
        /\ Succeeded
        /\ store = rep.first
        /\ rep.k \in DOMAIN store /\ store[rep.k] = rep.v
        /\ call.op = (IF rep.got THEN "cache_get" ELSE "cache_put")
        /\ call.args.key = rep.k
        /\ rep.got => call.result.value = PyInt(rep.v)

\* the get after a put made MaxRepeat times or more
C11_Witness ==
    /\ rep.n = MaxRepeat
    /\ rep.got
    /\ Succeeded
    /\ call.op = "cache_get"
    /\ call.result.value = PyInt(rep.v)

\* C12: over a working connection to an existing cache, a
\* cache_replace_if_equals whose key is absent or whose sample differs from
\* the stored value raises nothing, returns status 0 with the value false,
\* and leaves the cache as it was.
C12_MismatchInPayload ==
    [][(/\ call'.op = "cache_replace_if_equals"
        /\ ctx.conn = "ok" /\ KnownCache(ctx.cache)
        /\ \/ call'.args.key \notin DOMAIN store
           \/ store[call'.args.key] # call'.args.sample)
       => (/\ call'.raised = "none"
           /\ call'.result.status = 0
           /\ call'.result.value = PyBool(FALSE)
           /\ store' = store)]_vars

\* a replace_if_equals refused for a key whose value is neither the sample
\* nor the new value
C12_Witness ==
    /\ call.op = "cache_replace_if_equals"
    /\ Succeeded
    /\ call.result.value = PyBool(FALSE)
    /\ call.args.key \in DOMAIN store
    /\ store[call.args.key] # call.args.sample
    /\ store[call.args.key] # call.args.value

\* C13: every call makes exactly one exchange on the connection, whether the
\* exchange gives status 0, gives a nonzero status or fails; a failure of the
\* connection is raised to the caller and no result is returned for it.
C13_OneExchange ==
    Called =>
        /\ call.exchanges = 1
        /\ ctx.conn = "broken" => (call.raised = "ConnectionError" /\ ~call.performed)
        /\ ctx.conn = "ok" => (Returned /\ call.performed)
        /\ (ctx.conn = "ok" /\ ~KnownCache(ctx.cache)) => call.result.status # 0

\* a call over a broken connection: one exchange, the error raised
C13_Witness ==
    /\ call.op = "cache_put_if_absent"
    /\ ctx.conn = "broken"
    /\ call.exchanges = 1
    /\ call.raised = "ConnectionError"

\* C14: a query_id given by the caller is the query_id of the request, and
\* the result returned carries it; when none is given the request carries a
\* generated one, never an empty one.
C14_QueryIdCarried ==
    Called =>
        /\ call.args.query_id # None =>
                /\ call.request.query_id = call.args.query_id
                /\ Returned => call.result.query_id = call.args.query_id
        /\ call.args.query_id = None =>
                /\ call.request.query_id # None
                /\ call.request.query_id.t = "int"
                /\ Returned => call.result.query_id = call.request.query_id

\* a query_id of 0, carried by the request and by the result
C14_Witness ==
    /\ call.op = "cache_put"
    /\ call.args.query_id = PyInt(0)
    /\ call.request.query_id = PyInt(0)
    /\ Succeeded
    /\ call.result.query_id = PyInt(0)

\* C15: the flag field of every request is 0 or 1: 1 exactly when the binary
\* argument is true, and 0 when the argument is left to its default.
C15_BinaryFlag ==
    Called =>
        LET flag == call.request.params["flag"]
        IN  /\ flag.t = "int"
            /\ flag.v \in {0, 1}
            /\ flag.v = 1 <=> call.args.binary = PyBool(TRUE)
            /\ call.args.binary = DefaultBinary => flag.v = 0

\* a cache_clear in binary mode
C15_Witness ==
    /\ call.op = "cache_clear"
    /\ call.args.binary = PyBool(TRUE)
    /\ call.request.params["flag"] = PyInt(1)
    /\ Succeeded

\* C16: cache_get_size sends its peek modes as a sequence: the scalar 0 as
\* the empty list, any other scalar m as [m], and a list or a tuple as the
\* caller gave it, an empty one included.
C16_PeekModesList ==
    (Called /\ call.op = "cache_get_size") =>
        LET given == call.args.peek_modes
            sent == call.request.params["peek_modes"]
            scalar == given.t \notin {"list", "tuple"}
        IN  /\ sent.t \in {"list", "tuple"}
            /\ ~scalar => sent = given
            /\ (scalar /\ given.v = 0) => sent = PyList(<<>>)
            /\ (scalar /\ given.v # 0) => sent = PyList(<<given.v>>)

\* the default peek mode, sent as the empty list, counts every entry
C16_Witness ==
    /\ call.op = "cache_get_size"
    /\ call.args.peek_modes = PyInt(0)
    /\ call.request.params["peek_modes"] = PyList(<<>>)
    /\ Succeeded
    /\ call.result.value = PyInt(MaxKey)

\* C17: the names bound to values in a request are exactly the names of the
\* operation's request schema, and each argument is bound to the field of its
\* own name: key to 'key', sample to 'sample', value to 'value', keys to
\* 'keys', pairs to 'data'.
C17_ParamsMatchSchema ==
    Called =>
        LET following == call.request.following
            names == Range(FieldNames(following))
            params == call.request.params
            bound(arg, name, v) ==
                arg \in DOMAIN call.args => (name \in DOMAIN params /\ params[name] = v)
        IN  /\ DOMAIN params = names
            /\ Cardinality(names) = Len(following)
            /\ call.raised # "KeyError"
            /\ bound("key", "key", PyInt(call.args.key))
            /\ bound("sample", "sample", PyInt(call.args.sample))
            /\ bound("value", "value", PyInt(call.args.value))
            /\ bound("keys", "keys", PyList(call.args.keys))
            /\ bound("pairs", "data", PyDict(call.args.pairs))

\* a remove_if_equals whose sample matched the stored value
C17_Witness ==
    /\ call.op = "cache_remove_if_equals"
    /\ Succeeded
    /\ call.result.value = PyBool(TRUE)
    /\ DOMAIN call.request.params = {"hash_code", "flag", "key", "sample"}
    /\ call.request.params["sample"] = PyInt(call.args.sample)
    /\ call.args.key \notin DOMAIN store

\* the opcode constant named after each logical operation
OperationConstants ==
    { <<"cache_put", "OP_CACHE_PUT">>,
      <<"cache_get", "OP_CACHE_GET">>,
      <<"cache_get_all", "OP_CACHE_GET_ALL">>,
      <<"cache_put_all", "OP_CACHE_PUT_ALL">>,
      <<"cache_contains_key", "OP_CACHE_CONTAINS_KEY">>,
      <<"cache_contains_keys", "OP_CACHE_CONTAINS_KEYS">>,
      <<"cache_get_and_put", "OP_CACHE_GET_AND_PUT">>,
      <<"cache_get_and_replace", "OP_CACHE_GET_AND_REPLACE">>,
      <<"cache_get_and_remove", "OP_CACHE_GET_AND_REMOVE">>,
      <<"cache_put_if_absent", "OP_CACHE_PUT_IF_ABSENT">>,
      <<"cache_get_and_put_if_absent", "OP_CACHE_GET_AND_PUT_IF_ABSENT">>,
      <<"cache_replace", "OP_CACHE_REPLACE">>,
      <<"cache_replace_if_equals", "OP_CACHE_REPLACE_IF_EQUALS">>,
      <<"cache_clear", "OP_CACHE_CLEAR">>,
      <<"cache_clear_key", "OP_CACHE_CLEAR_KEY">>,
      <<"cache_clear_keys", "OP_CACHE_CLEAR_KEYS">>,
      <<"cache_remove_key", "OP_CACHE_REMOVE_KEY">>,
      <<"cache_remove_if_equals", "OP_CACHE_REMOVE_IF_EQUALS">>,
      <<"cache_remove_keys", "OP_CACHE_REMOVE_KEYS">>,
      <<"cache_remove_all", "OP_CACHE_REMOVE_ALL">>,
      <<"cache_get_size", "OP_CACHE_GET_SIZE">> }

\* C18: the request of every call carries the opcode constant of the
\* operation that was called, and that constant belongs to no other of the
\* 21 operations.
C18_OwnOpcode ==
    /\ Cardinality({p[2] : p \in OperationConstants}) = Cardinality(Ops)
    /\ {p[1] : p \in OperationConstants} = Ops
    /\ \A o1 \in Ops, o2 \in Ops : OpCode(o1) = OpCode(o2) => o1 = o2
    /\ Called =>
            /\ <<call.op, call.request.op_code>> \in OperationConstants
            /\ \A o \in Ops \ {call.op} : <<o, call.request.op_code>> \notin OperationConstants

\* a cache_clear_key, which drops the entry and returns no value
C18_Witness ==
    /\ call.op = "cache_clear_key"
    /\ call.request.op_code = "OP_CACHE_CLEAR_KEY"
    /\ Succeeded
    /\ call.result.value = None
    /\ call.args.key \notin DOMAIN store
    /\ store # <<>>

====
